---- MODULE Spec2Model ----
(***************************************************************************)
(* Model of src/src/tradingview_mcp/server.py: the process-wide browser    *)
(* session manager (_playwright, _browser, _context), the two browsing     *)
(* tasks (get_chart_snapshot, validate_session), cleanup() and the         *)
(* call_tool dispatcher.                                                   *)
(*                                                                         *)
(* Every coroutine is cut at its await points: one action per awaited      *)
(* library call, which either returns or raises.  The code between two     *)
(* awaits runs without yielding to the event loop and is part of the       *)
(* action that resumes it.  Spec lets tool calls interleave at the await   *)
(* points (the protocol loop starts a task per request); SpecSeq runs one  *)
(* tool call at a time.                                                    *)
(***************************************************************************)
EXTENDS Naturals, Integers, Sequences, FiniteSets, TLC

\* ---- bounds of the model ----
\* call_tool requests when requests may overlap (Spec)
MaxCalls == 2
\* call_tool requests when they come one at a time (SpecSeq)
MaxSeqCalls == 3
\* calls of cleanup() in a row
MaxInRow == 2

Procs == {1, 2}

\* the Python None of the three module globals and of the task locals
None == 0

\* values of one environment variable: unset, set to "", set to a token
EnvVals == {"None", "", "tok"}
Envs == [sid : EnvVals, sign : EnvVals]

ToolNames == {"get_chart_snapshot", "validate_session", "list_timeframes", "unknown_tool"}
\* values of arguments.get("symbol")
Symbols == {"None", "", "BINANCE:BTCUSDT"}
\* len(screenshot) of a PNG returned by page.screenshot
ImgLens == {4}

VARIABLES
  _playwright,  \* module global
  _browser,     \* module global
  _context,     \* module global
  nPw,          \* number of Playwright drivers started so far
  openPw,       \* drivers started and not stopped
  browserPw,    \* browserPw[b]: the driver that launched browser b
  openBrowsers, \* browsers launched and not closed
  ctxBrowser,   \* ctxBrowser[c]: the browser of context c
  openCtx,      \* contexts created and not closed
  cookies,      \* cookies[c]: names of the cookies injected into context c
  pageCtx,      \* pageCtx[g]: the context of page g
  openPages,    \* pages opened and not closed
  pc,           \* pc[p]: the await at which task p is suspended, or "idle"
  tool,         \* tool[p]: the tool p runs
  envAt,        \* envAt[p]: os.environ as call_tool read it
  symbol,       \* symbol[p]: arguments.get("symbol") of p's call
  tgt,          \* tgt[p]: the object whose awaited method p is suspended in
  ctx,          \* ctx[p]: local `context` of the browsing task
  got,          \* got[p]: the cookies ctx[p] carried when get_browser_context returned it
  page,         \* page[p]: local `page`
  shot,         \* shot[p]: local `screenshot` (its length), None before
  content,      \* content[p]: local `content` of validate_session, None before
  steps,        \* steps[p]: page-level awaits of get_chart_snapshot, with outcome
  result,       \* result[p]: what call_tool returned (list of blocks)
  raised,       \* raised[p]: a library call raised during p's current call
  launches,     \* launches[p]: browsers launched by p's current call
  retry,        \* retry[p]: p's call is the first acquisition after a failed launch
  launchFailed, \* the last launch attempt raised and nothing acquired since
  returned,     \* the contexts get_browser_context has returned
  anyRaised,    \* some library call has raised
  closeLog,     \* what the last cleanup() closed, in order
  inRow,        \* number of cleanup() calls so far (main() runs it at shutdown)
  nCalls        \* number of call_tool requests so far

globals == <<_playwright, _browser, _context>>
world == <<nPw, openPw, browserPw, openBrowsers, ctxBrowser, openCtx, cookies, pageCtx, openPages>>
locals == <<pc, tool, envAt, symbol, tgt, ctx, got, page, shot, content, steps, result, raised, launches, retry>>
history == <<launchFailed, returned, anyRaised, closeLog, inRow, nCalls>>
vars == <<globals, world, locals, history>>

\* ---- pure helpers ----

\* Python truthiness of os.getenv(...): None and "" are falsy
Truthy(v) == v # "None" /\ v # ""

\* a guard that forgets the signature
CredsMissingSidOnly(e) == ~Truthy(e.sid)

\* call_tool: `if not session_id or not session_id_sign`
CredsMissing(e) == ~Truthy(e.sid) \/ ~Truthy(e.sign)

\* get_browser_context: `if not session_id or not session_id_sign`
CredentialsNotFound(e) == ~Truthy(e.sid) \/ ~Truthy(e.sign)

\* a manager that never reuses its context
ContextNeverCached(c) == FALSE

\* get_browser_context: `if _context is not None`
ContextCached(c) == c # None

\* get_browser_context: `if _playwright is None`
PlaywrightMissing(pw) == pw = None

\* a manager that takes a started driver for a launched browser
BrowserMissingWrongGlobal(b) == _playwright = None

\* get_browser_context: `if _browser is None`
BrowserMissing(b) == b = None

\* the two cookies of the add_cookies call
AuthCookies == {"sessionid", "sessionid_sign"}

\* a list that lost the 4-hour code
MinutesShort == <<"1", "5", "15", "30", "60">>

\* timeframes dict of list_timeframes
Minutes == <<"1", "5", "15", "30", "60", "240">>
DaysWeeksMonths == <<"D", "W", "M">>

\* the text of list_timeframes: one "  - code" line per interval, in dict order
TimeframeLines == Minutes \o DaysWeeksMonths

\* base64.b64encode: 4 output characters per started group of 3 bytes
B64Len(n) == 4 * ((n + 2) \div 3)

\* validate_session: 'sign in' not in content or 'user-menu' in content
IsAuthenticated(signIn, userMenu) == ~signIn \/ userMenu

\* ---- response blocks of call_tool ----
ConfigErrorBlock == [type |-> "text", text |-> "Error: TradingView credentials not found"]
SymbolErrorBlock == [type |-> "text", text |-> "Error: 'symbol' parameter is required"]
UnknownToolBlock == [type |-> "text", text |-> "Unknown tool"]
TimeframesBlock == [type |-> "text", text |-> "Available TradingView Timeframes", lines |-> TimeframeLines]
FailedBlock == [type |-> "text", text |-> "Failed to fetch chart snapshot"]
SessionBlock(valid) == [type |-> "text", text |-> IF valid THEN "Session Status: Valid" ELSE "Session Status: Invalid"]
SummaryBlock(n) == [type |-> "text", text |-> "Chart snapshot", bytes |-> n]
ImageBlock(n) == [type |-> "image", mimeType |-> "image/png", b64len |-> B64Len(n)]

\* call_tool lines 335-361: `if image_data:` two blocks, else the failure text
SnapshotResponse(image_data) ==
  IF image_data # None /\ image_data > 0
    THEN <<SummaryBlock(image_data), ImageBlock(image_data)>>
    ELSE <<FailedBlock>>

\* marker of an exception leaving call_tool
Raised == <<[type |-> "exception"]>>

\* ---- exception routing ----

\* a try block entered only once the context is acquired
ChartTryStepsLate ==
  {"new_page", "set_viewport", "goto_loose", "sleep", "screenshot", "close_page"}

\* awaited steps inside the try block of get_chart_snapshot (lines 119-163);
\* goto_strict and the two selector waits have their own bare except
ChartTrySteps ==
  {"get_browser_context", "start_pw", "launch", "new_context", "add_cookies",
   "new_page", "set_viewport", "goto_loose", "sleep", "screenshot", "close_page"}

\* awaited steps inside the try block of validate_session (lines 170-187)
ValidateTrySteps ==
  {"get_browser_context", "start_pw", "launch", "new_context", "add_cookies",
   "new_page", "goto", "sleep", "content", "close_page"}

\* what call_tool returns when step s of task t raises
Thrown(t, s) ==
  IF t = "get_chart_snapshot"
    THEN IF s \in ChartTrySteps THEN SnapshotResponse(None) ELSE Raised
    ELSE IF s \in ValidateTrySteps THEN <<SessionBlock(FALSE)>> ELSE Raised

\* ---- get_browser_context, between its awaits ----

CookiesOf(c) == IF c \in DOMAIN cookies THEN cookies[c] ELSE {}

\* lines 52-68 once the driver pw is there: launch, or new_context on _browser
GbcNext(pw, br) ==
  IF BrowserMissing(br) THEN [pc |-> "launch", tgt |-> pw]
                        ELSE [pc |-> "new_context", tgt |-> br]

\* lines 38-49, from the entry of get_browser_context in task t, with the
\* environment e, to its first await (or to its return or raise): where the
\* task suspends next
GbcEntry(t, e) ==
  IF ContextCached(_context)
    THEN [pc |-> "new_page", tgt |-> _context, ctx |-> _context,
          rets |-> {_context}, res |-> <<>>]
  ELSE IF CredentialsNotFound(e)
    THEN [pc |-> "idle", tgt |-> None, ctx |-> None, rets |-> {},
          res |-> Thrown(t, "get_browser_context")]
  ELSE IF PlaywrightMissing(_playwright)
    THEN [pc |-> "start_pw", tgt |-> None, ctx |-> None, rets |-> {}, res |-> <<>>]
  ELSE [pc |-> GbcNext(_playwright, _browser).pc, tgt |-> GbcNext(_playwright, _browser).tgt,
        ctx |-> None, rets |-> {}, res |-> <<>>]

\* ---- order of the awaits of the two browsing tasks ----

\* after context.new_page(): lines 124 / 174
AfterNewPage(t) == IF t = "get_chart_snapshot" THEN "set_viewport" ELSE "goto"

\* lines 136-140: the looser goto runs in the except of the strict one
AfterGotoStrict(ok) == IF ok THEN "wait_primary" ELSE "goto_loose"

\* lines 143-148: the alternative selector is waited for in the except of the first
AfterWaitPrimary(ok) == IF ok THEN "sleep" ELSE "wait_secondary"

\* a fallback that goes straight to the screenshot
AfterWaitSecondaryNoSettle(ok) == IF ok THEN "sleep" ELSE "screenshot"

\* lines 147-153: `except: pass`, then asyncio.sleep(3) either way
AfterWaitSecondary(ok) == "sleep"

\* after asyncio.sleep: lines 156 / 178
AfterSleep(t) == IF t = "get_chart_snapshot" THEN "screenshot" ELSE "content"

Step(s, ok) == [s |-> s, ok |-> ok]

Init ==
  /\ _playwright = None /\ _browser = None /\ _context = None
  /\ nPw = 0 /\ openPw = {}
  /\ browserPw = <<>> /\ openBrowsers = {}
  /\ ctxBrowser = <<>> /\ openCtx = {} /\ cookies = <<>>
  /\ pageCtx = <<>> /\ openPages = {}
  /\ pc = [p \in Procs |-> "idle"]
  /\ tool = [p \in Procs |-> "none"]
  /\ envAt = [p \in Procs |-> [sid |-> "None", sign |-> "None"]]
  /\ symbol = [p \in Procs |-> "None"]
  /\ tgt = [p \in Procs |-> None]
  /\ ctx = [p \in Procs |-> None]
  /\ got = [p \in Procs |-> {}]
  /\ page = [p \in Procs |-> None]
  /\ shot = [p \in Procs |-> None]
  /\ content = [p \in Procs |-> None]
  /\ steps = [p \in Procs |-> <<>>]
  /\ result = [p \in Procs |-> <<>>]
  /\ raised = [p \in Procs |-> FALSE]
  /\ launches = [p \in Procs |-> 0]
  /\ retry = [p \in Procs |-> FALSE]
  /\ launchFailed = FALSE
  /\ returned = {}
  /\ anyRaised = FALSE
  /\ closeLog = <<>>
  /\ inRow = 0
  /\ nCalls = 0

\* the frame of a task that is not running: what call_tool returned stays
\* until the next request is dispatched
Blank(f, p, v) == [q \in Procs |-> IF q = p \/ pc[q] = "idle" THEN v ELSE f[q]]

\* call_tool(name, arguments) up to its first await or its return; e is the
\* environment the two os.getenv calls read
CallTool(p) ==
  /\ pc[p] = "idle"
  /\ inRow = 0
  /\ nCalls' = nCalls + 1
  /\ \E name \in ToolNames, e \in Envs :
     \E sym \in IF name = "get_chart_snapshot" THEN Symbols ELSE {"None"} :
       LET browse == /\ ~CredsMissing(e)
                     /\ \/ name = "validate_session"
                        \/ name = "get_chart_snapshot" /\ Truthy(sym)
           g == GbcEntry(name, e)
       IN /\ tool' = [Blank(tool, p, "none") EXCEPT ![p] = name]
          /\ symbol' = [Blank(symbol, p, "None") EXCEPT ![p] = sym]
          /\ envAt' = [Blank(envAt, p, [sid |-> "None", sign |-> "None"]) EXCEPT ![p] = e]
          /\ page' = [page EXCEPT ![p] = None]
          /\ shot' = [shot EXCEPT ![p] = None]
          /\ content' = [content EXCEPT ![p] = None]
          /\ steps' = Blank(steps, p, <<>>)
          /\ raised' = Blank(raised, p, FALSE)
          /\ launches' = Blank(launches, p, 0)
          /\ IF browse
               THEN /\ pc' = [pc EXCEPT ![p] = g.pc]
                    /\ tgt' = [tgt EXCEPT ![p] = g.tgt]
                    /\ ctx' = [ctx EXCEPT ![p] = g.ctx]
                    /\ got' = [got EXCEPT ![p] = CookiesOf(g.ctx)]
                    /\ returned' = returned \cup g.rets
                    /\ result' = [Blank(result, p, <<>>) EXCEPT ![p] = g.res]
                    /\ retry' = [Blank(retry, p, FALSE) EXCEPT ![p] = launchFailed]
                    /\ launchFailed' = FALSE
               ELSE /\ result' = [Blank(result, p, <<>>) EXCEPT ![p] =
                         IF CredsMissing(e) THEN <<ConfigErrorBlock>>
                         ELSE IF name = "list_timeframes" THEN <<TimeframesBlock>>
                         ELSE IF name = "get_chart_snapshot" THEN <<SymbolErrorBlock>>
                         ELSE <<UnknownToolBlock>>]
                    /\ tgt' = [tgt EXCEPT ![p] = None]
                    /\ ctx' = [ctx EXCEPT ![p] = None]
                    /\ got' = [got EXCEPT ![p] = {}]
                    /\ retry' = Blank(retry, p, FALSE)
                    /\ UNCHANGED <<pc, returned, launchFailed>>
  /\ UNCHANGED <<globals, world, anyRaised, closeLog, inRow>>

\* ---- helpers of the step actions ----

\* the awaits of get_chart_snapshot on its page, lines 124-158
PageSteps == {"set_viewport", "goto_strict", "goto_loose", "wait_primary",
              "wait_secondary", "sleep_settle", "screenshot", "close_page_chart"}

\* name of step s in the trace of task t
StepName(t, s) ==
  IF t # "get_chart_snapshot" THEN s
  ELSE IF s = "sleep" THEN "sleep_settle"
  ELSE IF s = "close_page" THEN "close_page_chart"
  ELSE s

\* the trace tr of task t after its await s ended with outcome ok
Traced(tr, t, s, ok) ==
  IF StepName(t, s) \in PageSteps THEN Append(tr, Step(StepName(t, s), ok)) ELSE tr

\* call_tool returns res to the protocol layer: the task's frame is gone
Finish(p, res) ==
  /\ pc' = [pc EXCEPT ![p] = "idle"]
  /\ result' = [result EXCEPT ![p] = res]
  /\ tgt' = [tgt EXCEPT ![p] = None]
  /\ ctx' = [ctx EXCEPT ![p] = None]
  /\ got' = [got EXCEPT ![p] = {}]
  /\ page' = [page EXCEPT ![p] = None]
  /\ shot' = [shot EXCEPT ![p] = None]
  /\ content' = [content EXCEPT ![p] = None]

\* the awaited call s of p raises and no inner except catches it; lib tells a
\* failure of the library from an AttributeError on None
RaiseAt(p, s, lib) ==
  /\ Finish(p, Thrown(tool[p], s))
  /\ steps' = [steps EXCEPT ![p] = Traced(@, tool[p], s, FALSE)]
  /\ raised' = [raised EXCEPT ![p] = @ \/ lib]
  /\ anyRaised' = (anyRaised \/ lib)

\* the awaited call s of p is over (returned, or raised into an inner except)
\* and p suspends at its next await
Goes(p, s, ok, next, target) ==
  /\ pc' = [pc EXCEPT ![p] = next]
  /\ tgt' = [tgt EXCEPT ![p] = target]
  /\ steps' = [steps EXCEPT ![p] = Traced(@, tool[p], s, ok)]
  /\ raised' = [raised EXCEPT ![p] = @ \/ ~ok]
  /\ anyRaised' = (anyRaised \/ ~ok)
  /\ UNCHANGED result

\* ---- get_browser_context, one action per await ----

\* what no step of a task changes
fixed == <<tool, envAt, symbol, retry, closeLog, inRow, nCalls>>
frame == <<ctx, got, page, shot, content>>

\* line 49: _playwright = await async_playwright().start()
StartPlaywright(p) ==
  /\ pc[p] = "start_pw"
  /\ \E ok \in BOOLEAN :
       IF ok
         THEN LET h == nPw + 1 IN
              /\ nPw' = h
              /\ openPw' = openPw \cup {h}
              /\ _playwright' = h
              /\ Goes(p, "start_pw", TRUE, GbcNext(h, _browser).pc, GbcNext(h, _browser).tgt)
              /\ UNCHANGED frame
         ELSE /\ RaiseAt(p, "start_pw", TRUE)
              /\ UNCHANGED <<nPw, openPw, _playwright>>
  /\ UNCHANGED <<fixed, _browser, _context, browserPw, openBrowsers, ctxBrowser, openCtx,
                 cookies, pageCtx, openPages, launches, launchFailed, returned>>

\* lines 53-65: _browser = await _playwright.chromium.launch(...), then line 68
\* calls _browser.new_context(...)
Launch(p) ==
  /\ pc[p] = "launch"
  /\ \E ok \in BOOLEAN :
       IF ok /\ tgt[p] \in openPw
         THEN LET b == Len(browserPw) + 1 IN
              /\ browserPw' = Append(browserPw, tgt[p])
              /\ openBrowsers' = openBrowsers \cup {b}
              /\ _browser' = b
              /\ launches' = [launches EXCEPT ![p] = @ + 1]
              /\ Goes(p, "launch", TRUE, "new_context", b)
              /\ UNCHANGED <<frame, launchFailed>>
         ELSE /\ RaiseAt(p, "launch", tgt[p] # None)
              /\ launchFailed' = TRUE
              /\ UNCHANGED <<browserPw, openBrowsers, _browser, launches>>
  /\ UNCHANGED <<fixed, _playwright, _context, nPw, openPw, ctxBrowser, openCtx, cookies,
                 pageCtx, openPages, returned>>

\* lines 68-74: _context = await _browser.new_context(...), then
\* _context.add_cookies([...]) is called
NewContext(p) ==
  /\ pc[p] = "new_context"
  /\ \E ok \in BOOLEAN :
       IF ok /\ tgt[p] \in openBrowsers
         THEN LET c == Len(ctxBrowser) + 1 IN
              /\ ctxBrowser' = Append(ctxBrowser, tgt[p])
              /\ cookies' = Append(cookies, {})
              /\ openCtx' = openCtx \cup {c}
              /\ _context' = c
              /\ Goes(p, "new_context", TRUE, "add_cookies", c)
              /\ UNCHANGED frame
         ELSE /\ RaiseAt(p, "new_context", tgt[p] # None)
              /\ UNCHANGED <<ctxBrowser, cookies, openCtx, _context>>
  /\ UNCHANGED <<fixed, _playwright, _browser, nPw, openPw, browserPw, openBrowsers,
                 pageCtx, openPages, launches, launchFailed, returned>>

\* lines 74-96: await _context.add_cookies([...]); return _context, and the
\* caller calls context.new_page()
AddCookies(p) ==
  /\ pc[p] = "add_cookies"
  /\ \E ok \in BOOLEAN :
       IF ok /\ tgt[p] \in openCtx
         THEN /\ cookies' = [cookies EXCEPT ![tgt[p]] = @ \cup AuthCookies]
              /\ ctx' = [ctx EXCEPT ![p] = _context]
              /\ got' = [got EXCEPT ![p] = cookies'[_context]]
              /\ returned' = returned \cup {_context}
              /\ Goes(p, "add_cookies", TRUE, "new_page", _context)
              /\ UNCHANGED <<page, shot, content>>
         ELSE /\ RaiseAt(p, "add_cookies", tgt[p] # None)
              /\ UNCHANGED <<cookies, returned>>
  /\ UNCHANGED <<fixed, globals, nPw, openPw, browserPw, openBrowsers, ctxBrowser,
                 openCtx, pageCtx, openPages, launches, launchFailed>>

\* ---- the browsing tasks, one action per await ----

\* what no page-level step changes
pageFrame == <<fixed, globals, nPw, openPw, browserPw, openBrowsers, ctxBrowser, openCtx,
               cookies, launches, launchFailed, returned>>

\* lines 121 / 172: page = await context.new_page()
NewPage(p) ==
  /\ pc[p] = "new_page"
  /\ \E ok \in BOOLEAN :
       IF ok /\ tgt[p] \in openCtx
         THEN LET g == Len(pageCtx) + 1 IN
              /\ pageCtx' = Append(pageCtx, tgt[p])
              /\ openPages' = openPages \cup {g}
              /\ page' = [page EXCEPT ![p] = g]
              /\ Goes(p, "new_page", TRUE, AfterNewPage(tool[p]), g)
              /\ UNCHANGED <<ctx, got, shot, content>>
         ELSE /\ RaiseAt(p, "new_page", tgt[p] # None)
              /\ UNCHANGED <<pageCtx, openPages>>
  /\ UNCHANGED pageFrame

\* line 124: await page.set_viewport_size(...)
SetViewport(p) ==
  /\ pc[p] = "set_viewport"
  /\ \E ok \in BOOLEAN :
       IF ok THEN /\ Goes(p, "set_viewport", TRUE, "goto_strict", page[p])
                  /\ UNCHANGED frame
             ELSE RaiseAt(p, "set_viewport", TRUE)
  /\ UNCHANGED <<pageFrame, pageCtx, openPages>>

\* lines 136-138: await page.goto(chart_url, wait_until="domcontentloaded", ...)
GotoStrict(p) ==
  /\ pc[p] = "goto_strict"
  /\ \E ok \in BOOLEAN : Goes(p, "goto_strict", ok, AfterGotoStrict(ok), page[p])
  /\ UNCHANGED <<pageFrame, pageCtx, openPages, frame>>

\* line 140: await page.goto(chart_url, timeout=45000), inside the except
GotoLoose(p) ==
  /\ pc[p] = "goto_loose"
  /\ \E ok \in BOOLEAN :
       IF ok THEN /\ Goes(p, "goto_loose", TRUE, "wait_primary", page[p])
                  /\ UNCHANGED frame
             ELSE RaiseAt(p, "goto_loose", TRUE)
  /\ UNCHANGED <<pageFrame, pageCtx, openPages>>

\* lines 143-145: await page.wait_for_selector('div[data-name="legend-source-item"]')
WaitPrimary(p) ==
  /\ pc[p] = "wait_primary"
  /\ \E ok \in BOOLEAN : Goes(p, "wait_primary", ok, AfterWaitPrimary(ok), page[p])
  /\ UNCHANGED <<pageFrame, pageCtx, openPages, frame>>

\* lines 147-150: await page.wait_for_selector('.chart-container'); except: pass
WaitSecondary(p) ==
  /\ pc[p] = "wait_secondary"
  /\ \E ok \in BOOLEAN : Goes(p, "wait_secondary", ok, AfterWaitSecondary(ok), page[p])
  /\ UNCHANGED <<pageFrame, pageCtx, openPages, frame>>

\* lines 153 / 177: await asyncio.sleep(...)
Sleep(p) ==
  /\ pc[p] = "sleep"
  /\ Goes(p, "sleep", TRUE, AfterSleep(tool[p]), page[p])
  /\ UNCHANGED <<pageFrame, pageCtx, openPages, frame>>

\* line 156: screenshot = await page.screenshot(type='png', full_page=False)
Screenshot(p) ==
  /\ pc[p] = "screenshot"
  /\ \E ok \in BOOLEAN :
       IF ok THEN \E n \in ImgLens :
                    /\ shot' = [shot EXCEPT ![p] = n]
                    /\ Goes(p, "screenshot", TRUE, "close_page", page[p])
                    /\ UNCHANGED <<ctx, got, page, content>>
             ELSE RaiseAt(p, "screenshot", TRUE)
  /\ UNCHANGED <<pageFrame, pageCtx, openPages>>

\* line 174: await page.goto("https://www.tradingview.com/", timeout=15000)
Goto(p) ==
  /\ pc[p] = "goto"
  /\ \E ok \in BOOLEAN :
       IF ok THEN /\ Goes(p, "goto", TRUE, "sleep", page[p])
                  /\ UNCHANGED frame
             ELSE RaiseAt(p, "goto", TRUE)
  /\ UNCHANGED <<pageFrame, pageCtx, openPages>>

\* line 178: content = await page.content()
Content(p) ==
  /\ pc[p] = "content"
  /\ \E ok \in BOOLEAN :
       IF ok THEN \E signIn \in BOOLEAN, userMenu \in BOOLEAN :
                    /\ content' = [content EXCEPT ![p] = <<signIn, userMenu>>]
                    /\ Goes(p, "content", TRUE, "close_page", page[p])
                    /\ UNCHANGED <<ctx, got, page, shot>>
             ELSE RaiseAt(p, "content", TRUE)
  /\ UNCHANGED <<pageFrame, pageCtx, openPages>>

\* what the task returns once page.close() is over, packaged by call_tool:
\* lines 158-161 and 335-351, lines 180-185 and 290-296
Packaged(t, screenshot, cont) ==
  IF t = "get_chart_snapshot"
    THEN SnapshotResponse(screenshot)
    ELSE <<SessionBlock(IsAuthenticated(cont[1], cont[2]))>>

\* lines 158 / 180: await page.close(), the last await of both tasks
ClosePage(p) ==
  /\ pc[p] = "close_page"
  /\ \E ok \in BOOLEAN :
       IF ok THEN /\ openPages' = openPages \ {page[p]}
                  /\ Finish(p, Packaged(tool[p], shot[p], content[p]))
                  /\ steps' = [steps EXCEPT ![p] = Traced(@, tool[p], "close_page", TRUE)]
                  /\ UNCHANGED <<raised, anyRaised>>
             ELSE /\ RaiseAt(p, "close_page", TRUE)
                  /\ UNCHANGED openPages
  /\ UNCHANGED <<pageFrame, pageCtx>>

\* ---- cleanup ----

\* `if _context:` / `if _browser:` / `if _playwright:` on a handle
Held(h) == h # None

\* lines 196-206: the closes cleanup() performs, in order
CleanupLog(c, b, pw) ==
  (IF Held(c) THEN <<"context">> ELSE <<>>)
    \o (IF Held(b) THEN <<"browser">> ELSE <<>>)
    \o (IF Held(pw) THEN <<"playwright">> ELSE <<>>)

\* cleanup(), run by main() in the finally of the protocol loop: no task is in
\* flight and no request is dispatched afterwards; it may be called again.
\* Closing a context closes its pages, closing a browser its contexts, and
\* stopping a driver the browsers it launched.
Cleanup ==
  /\ \A p \in Procs : pc[p] = "idle"
  /\ inRow < MaxInRow
  /\ inRow' = inRow + 1
  /\ closeLog' = CleanupLog(_context, _browser, _playwright)
  /\ LET pw1 == IF Held(_playwright) THEN openPw \ {_playwright} ELSE openPw
         br0 == IF Held(_browser) THEN openBrowsers \ {_browser} ELSE openBrowsers
         br1 == {b \in br0 : browserPw[b] \in pw1}
         cx0 == IF Held(_context) THEN openCtx \ {_context} ELSE openCtx
         cx1 == {c \in cx0 : ctxBrowser[c] \in br1}
     IN /\ openPw' = pw1
        /\ openBrowsers' = br1
        /\ openCtx' = cx1
        /\ openPages' = {g \in openPages : pageCtx[g] \in cx1}
  /\ _context' = None /\ _browser' = None /\ _playwright' = None
  /\ UNCHANGED <<nPw, browserPw, ctxBrowser, cookies, pageCtx, locals, launchFailed,
                 returned, anyRaised, nCalls>>

\* ---- specifications ----

TaskStep(p) ==
  \/ StartPlaywright(p) \/ Launch(p) \/ NewContext(p) \/ AddCookies(p)
  \/ NewPage(p) \/ SetViewport(p) \/ GotoStrict(p) \/ GotoLoose(p)
  \/ WaitPrimary(p) \/ WaitSecondary(p) \/ Sleep(p) \/ Screenshot(p)
  \/ Goto(p) \/ Content(p) \/ ClosePage(p)

\* tool calls may be in flight together
Next ==
  \/ \E p \in Procs : nCalls < MaxCalls /\ CallTool(p)
  \/ \E p \in Procs : TaskStep(p)
  \/ Cleanup

Spec == Init /\ [][Next]_vars

NoneInFlight == \A q \in Procs : pc[q] = "idle"

\* one tool call at a time
NextSeq ==
  \/ \E p \in Procs : NoneInFlight /\ nCalls < MaxSeqCalls /\ CallTool(p)
  \/ \E p \in Procs : TaskStep(p)
  \/ Cleanup

SpecSeq == Init /\ [][NextSeq]_vars

\* ---- vocabulary of the properties ----

\* a credential is absent or empty
Absent(v) == v \in {"None", ""}
CredsAbsent(e) == Absent(e.sid) \/ Absent(e.sign)

\* this step dispatches a call_tool request to p
Dispatched(p) == nCalls' = nCalls + 1 /\ pc[p] = "idle" /\ tool'[p] # "none"

\* the nine timeframe codes
NineCodes == <<"1", "5", "15", "30", "60", "240", "D", "W", "M">>

Types(res) == [i \in DOMAIN res |-> res[i].type]

\* trace helpers
Has(tr, s) == \E i \in DOMAIN tr : tr[i].s = s
Pos(tr, s) == IF Has(tr, s) THEN CHOOSE i \in DOMAIN tr : tr[i].s = s ELSE 0
Ok(tr, s) == Has(tr, s) /\ tr[Pos(tr, s)].ok
Failed(tr, s) == Has(tr, s) /\ ~tr[Pos(tr, s)].ok
Before(tr, a, b) == Has(tr, a) /\ Has(tr, b) /\ Pos(tr, a) < Pos(tr, b)

\* ---- C1 ----
\* C1: with both credentials present and no step failing, any number of
\* sequential acquisitions launches one browser, creates one context and
\* returns that one context every time.
C1_OneLaunchOneContext ==
  (~anyRaised /\ returned # {}) =>
     /\ Len(browserPw) = 1
     /\ Len(ctxBrowser) = 1
     /\ returned = {1}
     /\ \A p \in Procs : ctx[p] # None => ctx[p] = 1

\* the third call of a run without failure has been handed the context
C1_Witness ==
  /\ ~anyRaised
  /\ Len(pageCtx) = 2
  /\ \E p \in Procs : pc[p] = "new_page" /\ ctx[p] = _context /\ ctx[p] # None

\* ---- C2 ----
\* C2: a call_tool request dispatched while a credential is absent or empty
\* returns the one configuration-error text block, whatever the operation
\* name, and starts no driver, launches no browser, creates no context and
\* opens no page, whatever the session manager holds.
C2_ConfigErrorNoBrowser ==
  [][\A p \in Procs :
       (Dispatched(p) /\ CredsAbsent(envAt'[p])) =>
          /\ pc'[p] = "idle"
          /\ result'[p] = <<ConfigErrorBlock>>
          /\ UNCHANGED <<globals, world>>]_vars

\* a request without credentials was answered while a context was held
C2_Witness ==
  \E p \in Procs :
     /\ tool[p] = "get_chart_snapshot" /\ Truthy(symbol[p])
     /\ CredsAbsent(envAt[p])
     /\ result[p] = <<ConfigErrorBlock>>
     /\ _context # None

\* ---- C3 ----
\* C3: at most one launched-and-not-closed browser and at most one
\* created-and-not-closed context exist at any time, also when two tool calls
\* interleave at the awaits of get_browser_context.
C3_SingleBrowserAndContext ==
  /\ Cardinality(openBrowsers) <= 1
  /\ Cardinality(openCtx) <= 1

\* ---- C4 ----
\* C4: every page a task opened is closed before the call returns, on every
\* exit path: with no call in flight no page is open.
C4_NoPageLeftOpen ==
  (\A p \in Procs : pc[p] = "idle") => openPages = {}

\* ---- C5 ----
\* C5: a get_chart_snapshot request with credentials and a non-empty symbol
\* never raises out of call_tool: it answers one text block and no image when
\* the capture failed, and a text block followed by an image/png block when
\* it succeeded.
C5_SnapshotAlwaysAnswers ==
  \A p \in Procs :
     (/\ tool[p] = "get_chart_snapshot" /\ pc[p] = "idle"
      /\ ~CredsAbsent(envAt[p]) /\ ~Absent(symbol[p])) =>
        /\ result[p] # Raised
        /\ IF Ok(steps[p], "close_page_chart")
             THEN /\ Types(result[p]) = <<"text", "image">>
                  /\ result[p][2].mimeType = "image/png"
             ELSE Types(result[p]) = <<"text">>

\* a capture was given up because the browser could not be launched
C5_Witness ==
  \E p \in Procs :
     /\ tool[p] = "get_chart_snapshot" /\ pc[p] = "idle"
     /\ raised[p] /\ launchFailed
     /\ result[p] = <<FailedBlock>>

\* ---- C6 ----
\* C6: after cleanup(), in whatever state it was called, the three handles
\* are absent and nothing launched remains open; it closed what it held in
\* the order context, browser, driver; a second call closes nothing.
C6_CleanupReleasesAll ==
  inRow >= 1 =>
     /\ _context = None /\ _browser = None /\ _playwright = None
     /\ openCtx = {} /\ openBrowsers = {} /\ openPw = {}
     /\ \E a \in SUBSET {"context"}, b \in SUBSET {"browser"}, c \in SUBSET {"playwright"} :
          closeLog = (IF a = {} THEN <<>> ELSE <<"context">>)
                       \o (IF b = {} THEN <<>> ELSE <<"browser">>)
                       \o (IF c = {} THEN <<>> ELSE <<"playwright">>)
     /\ inRow >= 2 => closeLog = <<>>

\* ---- C7 ----
\* C7 as stated: every list_timeframes request gets the list of the nine
\* codes, whatever the environment.
C7_AlwaysTheNineCodes ==
  \A p \in Procs :
     (tool[p] = "list_timeframes") =>
        /\ Types(result[p]) = <<"text">>
        /\ "lines" \in DOMAIN result[p][1]
        /\ result[p][1].lines = NineCodes

\* C7 as amended: a list_timeframes request dispatched while both credentials
\* are present gets one text block listing exactly 1, 5, 15, 30, 60, 240, D,
\* W, M, whatever the session manager holds, and changes nothing of it.
C7_NineCodesWithCredentials ==
  [][\A p \in Procs :
       (Dispatched(p) /\ tool'[p] = "list_timeframes" /\ ~CredsAbsent(envAt'[p])) =>
          /\ pc'[p] = "idle"
          /\ result'[p] = <<[type |-> "text", text |-> "Available TradingView Timeframes",
                             lines |-> NineCodes]>>
          /\ UNCHANGED <<globals, world>>]_vars

\* the list was served while a context was held
C7_Witness ==
  \E p \in Procs :
     /\ tool[p] = "list_timeframes" /\ ~CredsAbsent(envAt[p])
     /\ result[p] = <<TimeframesBlock>>
     /\ _context # None

\* ---- C8 ----
\* C8: a failed launch records no browser and no context; the acquisition
\* that follows it launches exactly once when no library call raises, and the
\* context it returns is the recorded, open, authenticated one.
C8_RetryAfterLaunchFailure ==
  /\ launchFailed => (_browser = None /\ _context = None)
  /\ \A p \in Procs :
       retry[p] =>
          /\ ctx[p] # None =>
               /\ launches[p] = 1
               /\ ctx[p] = _context
               /\ ctx[p] \in openCtx
               /\ ctxBrowser[ctx[p]] = _browser
               /\ _browser \in openBrowsers
               /\ got[p] = AuthCookies
          /\ (pc[p] = "idle" /\ ~raised[p]) => launches[p] = 1

\* the call after a failed launch holds a context
C8_Witness ==
  \E p \in Procs :
     retry[p] /\ pc[p] = "new_page" /\ ctx[p] # None /\ launches[p] = 1

\* ---- C9 ----
\* C9: every context get_browser_context returns carries both cookies when it
\* is returned.
C9_ReturnedContextAuthenticated ==
  \A p \in Procs : ctx[p] # None => got[p] = AuthCookies

\* ---- C10 ----
\* C10: in a capture the looser navigation is tried only after the strict one
\* failed, the secondary marker only after the primary failed, the settle
\* pause follows the marker waits however they ended, the screenshot comes
\* after the pause; failed marker waits never end the capture, and two failed
\* navigations end it without a screenshot and without an image.
C10_CaptureOrder ==
  \A p \in Procs :
     tool[p] = "get_chart_snapshot" =>
       LET tr == steps[p] IN
       /\ Has(tr, "goto_loose") => (Failed(tr, "goto_strict") /\ Before(tr, "goto_strict", "goto_loose"))
       /\ Has(tr, "wait_primary") =>
            \/ Ok(tr, "goto_strict") /\ Before(tr, "goto_strict", "wait_primary")
            \/ Ok(tr, "goto_loose") /\ Before(tr, "goto_loose", "wait_primary")
       /\ Has(tr, "wait_secondary") =>
            (Failed(tr, "wait_primary") /\ Before(tr, "wait_primary", "wait_secondary"))
       /\ Has(tr, "sleep_settle") =>
            /\ Before(tr, "wait_primary", "sleep_settle")
            /\ Ok(tr, "wait_primary") \/ Before(tr, "wait_secondary", "sleep_settle")
       /\ Has(tr, "screenshot") => Before(tr, "sleep_settle", "screenshot")
       /\ pc[p] = "screenshot" => Has(tr, "sleep_settle")
       /\ (tr # <<>> /\ tr[Len(tr)].s = "wait_primary") =>
            pc[p] = (IF tr[Len(tr)].ok THEN "sleep" ELSE "wait_secondary")
       /\ (tr # <<>> /\ tr[Len(tr)].s = "wait_secondary") => pc[p] = "sleep"
       /\ Failed(tr, "goto_loose") =>
            /\ pc[p] = "idle"
            /\ result[p] = <<FailedBlock>>
            /\ ~Has(tr, "screenshot")

\* a screenshot was taken after both navigations were needed and both marker
\* waits failed
C10_Witness ==
  \E p \in Procs :
     /\ Failed(steps[p], "goto_strict") /\ Ok(steps[p], "goto_loose")
     /\ Failed(steps[p], "wait_primary") /\ Failed(steps[p], "wait_secondary")
     /\ Ok(steps[p], "screenshot")
====
